---- MODULE Spec2Model ----
(***************************************************************************)
(* Model of the Jewel trading bot: the MicroStrategy position logic and   *)
(* the three session drivers that feed it (TradingGame,                   *)
(* BaseTradingGame/FakeMoneyGame, LiveTrader).                            *)
(*                                                                         *)
(* Numbers.  The program computes with floating point numbers; the model  *)
(* uses fixed point integers.  Cash and asset amounts are counted in      *)
(* 1/Scale of a dollar (of a coin), prices in 1/PScale of a dollar.       *)
(* Products and quotients are rounded down to a unit, comparisons against *)
(* a percentage threshold are made exactly by cross-multiplication.       *)
(***************************************************************************)
EXTENDS Integers, Sequences, FiniteSets, TLC

\* ------------------------------------------------------------------ bounds

\* Ticks (game) or loop cycles (live) a session is followed for.
MaxTicks == 3

\* Rows of the longest candle window a strategy object is constructed with.
MaxWindow == 15

\* ------------------------------------------------------------------ units

Scale == 100 * 100
PScale == 10 * 100

Dollars(n) == n * Scale
Price(n) == n * PScale

\* floor(a * n / d) for a >= 0, n >= 0, d > 0, without forming a * n.
MulDiv(a, n, d) == (a \div d) * n + ((a % d) * n) \div d

Max(a, b) == IF a >= b THEN a ELSE b
Min(a, b) == IF a <= b THEN a ELSE b

\* x * 0.95
Mul95(x) == MulDiv(x, 95, 100)

\* x * (1 - fee), the fee given in thousandths
NetOfFee(x, fee) == MulDiv(x, 1000 - fee, 1000)

\* amount / price : dollars to coins
Coins(amount, price) == MulDiv(amount, PScale, price)

\* holdings * price : coins to dollars
Value(holdings, price) == MulDiv(holdings, price, PScale)

\* ------------------------------------------------------------------ inputs

\* Prices the feed delivers to the session drivers: 0 (a degenerate quote),
\* 94, 100 and 102.5 dollars.
FeedPrices == {0, 94 * PScale, 100 * PScale, 102500}

\* Prices the strategy object is called with: those, and 98.4 and 98.5.
Prices == FeedPrices \cup {98400, 98500}

\* Indicator snapshots of the latest candle, as the indicator provider
\* (talib) returns them after the forward/backward fill.
Neutral ==
  [fastMA |-> 100000, slowMA |-> 100000, RSI |-> 53, MACD |-> 0, MACD_signal |-> 0,
   upper_band |-> 200000, middle_band |-> 100000, lower_band |-> 50000,
   stoch_k |-> 50, stoch_d |-> 50]
Bullish == [Neutral EXCEPT !.fastMA = 12000, !.slowMA = 8000, !.RSI = 40]
Bearish == [Neutral EXCEPT !.RSI = 70]
Mixed == [Bullish EXCEPT !.stoch_k = 80, !.stoch_d = 90]
Snapshots == {Neutral, Bullish, Bearish, Mixed}

\* Snapshots that sit on a threshold of a rule, or just beside it.
RsiAt52 == [Bullish EXCEPT !.RSI = 52]
MacdAtFactor == [Neutral EXCEPT !.MACD = 11, !.MACD_signal = 10]
RsiAt35 == [Neutral EXCEPT !.MACD = 105, !.MACD_signal = 100, !.RSI = 35]
RsiBelow35 == [RsiAt35 EXCEPT !.RSI = 34]
StochAt30 == [Neutral EXCEPT !.lower_band = 100000, !.stoch_k = 30, !.stoch_d = 30]
StochBelow30 == [StochAt30 EXCEPT !.stoch_k = 29, !.stoch_d = 29]
RsiAt55 == [Neutral EXCEPT !.fastMA = 8000, !.slowMA = 12000, !.RSI = 55]
RsiAt65 == [Neutral EXCEPT !.RSI = 65]
EdgeSnapshots ==
  {RsiAt52, MacdAtFactor, RsiAt35, RsiBelow35, StochAt30, StochBelow30, RsiAt55, RsiAt65}

\* Starting balances, in dollars.
StartBalances == {Dollars(100), Dollars(400)}

\* --------------------------------------------------------- MicroStrategy

\* MicroStrategy.__init__: the account part of the strategy object.  log is
\* the last line the strategy wrote about a trade.
NewStrategy(bal, btc, fee) ==
  [balance |-> bal, btc_holdings |-> btc, trade_amount |-> Mul95(bal),
   fee |-> fee, last_buy_price |-> 0, log |-> "NONE"]

\* Mutant: the RSI filter of the MA crossover taken as inclusive.
OpenLong_Inclusive(ind, close) ==
  \/ ind.fastMA > ind.slowMA /\ ind.RSI <= 52
  \/ ind.MACD * 10 > ind.MACD_signal * 11 /\ ind.RSI < 55
  \/ ind.RSI < 35 /\ ind.MACD > ind.MACD_signal
  \/ close * 100 < ind.lower_band * 101 /\ ind.stoch_k < 30
  \/ ind.stoch_k < 30 /\ ind.stoch_k > ind.stoch_d

\* populate_signals: open_long of the latest row
OpenLong(ind, close) ==
  \/ ind.fastMA > ind.slowMA /\ ind.RSI < 52
  \/ ind.MACD * 10 > ind.MACD_signal * 11 /\ ind.RSI < 55
  \/ ind.RSI < 35 /\ ind.MACD > ind.MACD_signal
  \/ close * 100 < ind.lower_band * 101 /\ ind.stoch_k < 30
  \/ ind.stoch_k < 30 /\ ind.stoch_k > ind.stoch_d

\* populate_signals: the bearish conditions common to both exit rule sets
GenericBearish(ind, close) ==
  \/ ind.fastMA < ind.slowMA /\ ind.RSI > 55
  \/ ind.RSI > 65
  \/ ind.MACD < ind.MACD_signal /\ close > ind.middle_band
  \/ close * 100 > ind.upper_band * 98
  \/ ind.stoch_k > 70 /\ ind.stoch_k < ind.stoch_d

\* Mutant: the take-profit threshold taken as exclusive.
TakeProfitHit_Exclusive(price, entry) == price * 1000 > entry * 1025

\* price >= entry * 1.025
TakeProfitHit(price, entry) == price * 1000 >= entry * 1025

\* Mutant: the stop-loss threshold taken as exclusive.
StopLossHit_Exclusive(price, entry) == price * 1000 < entry * 985

\* price <= entry * 0.985
StopLossHit(price, entry) == price * 1000 <= entry * 985

\* populate_signals: close_long of the latest row
CloseLong(ind, close, last_buy_price) ==
  IF last_buy_price > 0
    THEN \/ TakeProfitHit(close, last_buy_price)
         \/ StopLossHit(close, last_buy_price)
         \/ GenericBearish(ind, close)
    ELSE GenericBearish(ind, close)

\* Mutant: populate_signals that records the close as the entry price.
populate_signals_StoresEntry(s, ind, close) ==
  [s |-> [s EXCEPT !.last_buy_price = close],
   open_long |-> OpenLong(ind, close),
   close_long |-> CloseLong(ind, close, s.last_buy_price)]

\* MicroStrategy.populate_signals: the strategy object after the call and
\* the two signals of the latest row
populate_signals(s, ind, close) ==
  [s |-> s,
   open_long |-> OpenLong(ind, close),
   close_long |-> CloseLong(ind, close, s.last_buy_price)]

\* Mutant: buy_position without the check of the balance.
buy_position_NoBalanceCheck(s, price) ==
  IF price <= 0
    THEN [s EXCEPT !.log = "CANNOT_BUY"]
    ELSE [s EXCEPT !.btc_holdings = @ + NetOfFee(Coins(s.trade_amount, price), s.fee),
                   !.balance = @ - s.trade_amount,
                   !.last_buy_price = price,
                   !.log = "BUY"]

\* MicroStrategy.buy_position
buy_position(s, price) ==
  IF s.balance <= 0 \/ price <= 0
    THEN [s EXCEPT !.log = "CANNOT_BUY"]
    ELSE [s EXCEPT !.btc_holdings = @ + NetOfFee(Coins(s.trade_amount, price), s.fee),
                   !.balance = @ - s.trade_amount,
                   !.last_buy_price = price,
                   !.log = "BUY"]

\* Mutant: sell_position that credits the sale and keeps the holdings.
sell_position_KeepsHoldings(s, price) ==
  IF s.btc_holdings <= 0 \/ price <= 0
    THEN [s EXCEPT !.log = "CANNOT_SELL"]
    ELSE [s EXCEPT !.balance = @ + NetOfFee(Value(s.btc_holdings, price), s.fee),
                   !.log = "SELL"]

\* MicroStrategy.sell_position
sell_position(s, price) ==
  IF s.btc_holdings <= 0 \/ price <= 0
    THEN [s EXCEPT !.log = "CANNOT_SELL"]
    ELSE [s EXCEPT !.balance = @ + NetOfFee(Value(s.btc_holdings, price), s.fee),
                   !.btc_holdings = 0,
                   !.log = "SELL"]

\* evaluate_orders, line 143: trade_amount = min(balance * 0.95, balance)
SizeTrade(s) ==
  [s EXCEPT !.trade_amount = Min(Mul95(s.balance), s.balance), !.log = "NONE"]

\* Mutant: the thresholds are taken from last_buy_price even when it is 0.
evaluate_orders_EntryZero(s0, price, open_long_, close_long_) ==
  LET s == SizeTrade(s0)
      entry == s.last_buy_price
  IN  IF s.btc_holdings > 0
        THEN IF TakeProfitHit(price, entry) THEN sell_position(s, price)
             ELSE IF StopLossHit(price, entry) THEN sell_position(s, price)
             ELSE IF close_long_ THEN sell_position(s, price)
             ELSE s
        ELSE IF s.balance >= Dollars(10) /\ open_long_ THEN buy_position(s, price)
             ELSE s

\* Mutant: the entry branch is tried whenever no exit was made.
evaluate_orders_AddsToPosition(s0, price, open_long_, close_long_) ==
  LET s == SizeTrade(s0)
      entry == IF s.last_buy_price > 0 THEN s.last_buy_price ELSE price
  IN  IF s.btc_holdings > 0 /\ TakeProfitHit(price, entry) THEN sell_position(s, price)
      ELSE IF s.btc_holdings > 0 /\ StopLossHit(price, entry) THEN sell_position(s, price)
      ELSE IF s.btc_holdings > 0 /\ close_long_ THEN sell_position(s, price)
      ELSE IF s.balance >= Dollars(10) /\ open_long_ THEN buy_position(s, price)
      ELSE s

\* MicroStrategy.evaluate_orders on the row (close, open_long, close_long)
evaluate_orders(s0, price, open_long_, close_long_) ==
  LET s == SizeTrade(s0)
      entry == IF s.last_buy_price > 0 THEN s.last_buy_price ELSE price
  IN  IF s.btc_holdings > 0
        THEN IF TakeProfitHit(price, entry) THEN sell_position(s, price)
             ELSE IF StopLossHit(price, entry) THEN sell_position(s, price)
             ELSE IF close_long_ THEN sell_position(s, price)
             ELSE s
        ELSE IF s.balance >= Dollars(10) /\ open_long_ THEN buy_position(s, price)
             ELSE s

\* ------------------------------------------------- indicators (talib SMA ...)

\* An undefined cell of a column (NaN).
NaN == 0 - 1000 * 1000 * 1000

\* BaseTradingGame.execute_game_logic, lines 230-235: the row a game appends
\* for a new price
Candle(open, close) ==
  [close |-> close,
   high |-> Max(close, MulDiv(open, 1001, 1000)),
   low |-> Min(close, MulDiv(open, 999, 1000))]

\* The default parameters of populate_indicators, as every driver passes them.
strategy_params ==
  [fast_ma_period |-> 4, slow_ma_period |-> 12, rsi_period |-> 10,
   macd_fast |-> 8, macd_slow |-> 18, macd_signal |-> 5,
   bollinger_period |-> 15, bollinger_stddev |-> 18]     \* stddev in tenths

Column(data_, field) == [i \in 1..Len(data_) |-> data_[i][field]]

\* Whether the rolling window of w rows ending at row i is complete.
Complete(col, w, i) == i >= w /\ \A j \in (i - w + 1)..i : col[j] # NaN

RECURSIVE Sum(_, _, _)
Sum(col, a, b) == IF a > b THEN 0 ELSE col[a] + Sum(col, a + 1, b)

RECURSIVE SumSq(_, _, _, _)
SumSq(col, mean, a, b) ==
  IF a > b THEN 0 ELSE (col[a] - mean) * (col[a] - mean) + SumSq(col, mean, a + 1, b)

RECURSIVE Highest(_, _, _)
Highest(col, a, b) == IF a = b THEN col[a] ELSE Max(col[a], Highest(col, a + 1, b))

RECURSIVE Lowest(_, _, _)
Lowest(col, a, b) == IF a = b THEN col[a] ELSE Min(col[a], Lowest(col, a + 1, b))

\* floor of the square root, by Newton's iteration from above
RECURSIVE SqrtFrom(_, _)
SqrtFrom(n, r) == IF r * r <= n THEN r ELSE SqrtFrom(n, (r + n \div r) \div 2)
Sqrt(n) == IF n <= 0 THEN 0 ELSE SqrtFrom(n, Min(n, 46340))

\* pd.Series(col).rolling(window=w).mean()
rolling_mean(col, w) ==
  [i \in DOMAIN col |->
     IF Complete(col, w, i) THEN Sum(col, i - w + 1, i) \div w ELSE NaN]

\* pd.Series(col).rolling(window=w).std(), the sample deviation
rolling_std(col, w) ==
  [i \in DOMAIN col |->
     IF Complete(col, w, i) /\ w > 1
       THEN Sqrt(SumSq(col, Sum(col, i - w + 1, i) \div w, i - w + 1, i) \div (w - 1))
       ELSE NaN]

rolling_max(col, w) ==
  [i \in DOMAIN col |-> IF Complete(col, w, i) THEN Highest(col, i - w + 1, i) ELSE NaN]

rolling_min(col, w) ==
  [i \in DOMAIN col |-> IF Complete(col, w, i) THEN Lowest(col, i - w + 1, i) ELSE NaN]

\* pd.Series(col).ewm(span=span, adjust=False).mean()
ewm_mean(col, span) ==
  LET y[i \in DOMAIN col] ==
        IF i = 1 THEN col[1]
        ELSE LET prev == y[i - 1] IN prev + (2 * (col[i] - prev)) \div (span + 1)
  IN  [i \in DOMAIN col |-> y[i]]

\* talib.SMA
SMA(col, timeperiod) == rolling_mean(col, timeperiod)

\* talib.RSI: 100 - 100 / (1 + ma_up / ma_down); 0 / 0 is undefined, a
\* positive mean over a zero mean is infinite and gives 100.
RSI(col, timeperiod) ==
  LET up == [i \in DOMAIN col |-> IF i = 1 THEN NaN ELSE Max(col[i] - col[i - 1], 0)]
      down == [i \in DOMAIN col |-> IF i = 1 THEN NaN ELSE Max(col[i - 1] - col[i], 0)]
  IN  [i \in DOMAIN col |->
         IF ~Complete(up, timeperiod, i) THEN NaN
         ELSE LET su == Sum(up, i - timeperiod + 1, i)
                  sd == Sum(down, i - timeperiod + 1, i)
              IN  IF su + sd = 0 THEN NaN ELSE (100 * su) \div (su + sd)]

\* talib.MACD: the MACD line and its signal line
MACD(col, fastperiod, slowperiod, signalperiod) ==
  LET fast_ema == ewm_mean(col, fastperiod)
      slow_ema == ewm_mean(col, slowperiod)
      macd_line == [i \in DOMAIN col |-> fast_ema[i] - slow_ema[i]]
  IN  [macd |-> macd_line, signal |-> ewm_mean(macd_line, signalperiod)]

\* talib.BBANDS, the deviation factor given in tenths
BBANDS(col, timeperiod, nbdev) ==
  LET middle_band == rolling_mean(col, timeperiod)
      std_dev == rolling_std(col, timeperiod)
      Off(i) == MulDiv(std_dev[i], nbdev, 10)
  IN  [upper |-> [i \in DOMAIN col |->
                    IF std_dev[i] = NaN THEN NaN ELSE middle_band[i] + Off(i)],
       middle |-> middle_band,
       lower |-> [i \in DOMAIN col |->
                    IF std_dev[i] = NaN THEN NaN ELSE middle_band[i] - Off(i)]]

\* talib.STOCH: slow %K and slow %D
STOCH(high, low, close, fastk_period, slowk_period, slowd_period) ==
  LET highest_high == rolling_max(high, fastk_period)
      lowest_low == rolling_min(low, fastk_period)
      fastk == [i \in DOMAIN close |->
                  IF highest_high[i] = NaN \/ highest_high[i] = lowest_low[i] THEN NaN
                  ELSE (100 * (close[i] - lowest_low[i]))
                         \div (highest_high[i] - lowest_low[i])]
      slowk == rolling_mean(fastk, slowk_period)
  IN  [k |-> slowk, d |-> rolling_mean(slowk, slowd_period)]

\* Series.ffill(): an undefined cell takes the last defined value before it
ffill(col) ==
  LET f[i \in DOMAIN col] ==
        IF col[i] # NaN THEN col[i] ELSE IF i = 1 THEN NaN ELSE f[i - 1]
  IN  [i \in DOMAIN col |-> f[i]]

\* Series.bfill(): an undefined cell takes the next defined value after it
bfill(col) ==
  LET b[i \in DOMAIN col] ==
        IF col[i] # NaN THEN col[i] ELSE IF i = Len(col) THEN NaN ELSE b[i + 1]
  IN  [i \in DOMAIN col |-> b[i]]

\* The names of the indicator columns.
Columns ==
  {"fastMA", "slowMA", "RSI", "MACD", "MACD_signal", "upper_band", "middle_band",
   "lower_band", "stoch_k", "stoch_d"}

\* MicroStrategy.populate_indicators: the indicator columns of the window.
\* Lines 76-77 forward-fill every column but fastMA, lines 80-81
\* backward-fill all of them.
populate_indicators(data_, params) ==
  LET close == Column(data_, "close")
      macd == MACD(close, params.macd_fast, params.macd_slow, params.macd_signal)
      bands == BBANDS(close, params.bollinger_period, params.bollinger_stddev)
      stoch == STOCH(Column(data_, "high"), Column(data_, "low"), close, 10, 3, 3)
  IN  [fastMA |-> bfill(SMA(close, params.fast_ma_period)),
       slowMA |-> bfill(ffill(SMA(close, params.slow_ma_period))),
       RSI |-> bfill(ffill(RSI(close, params.rsi_period))),
       MACD |-> bfill(ffill(macd.macd)),
       MACD_signal |-> bfill(ffill(macd.signal)),
       upper_band |-> bfill(ffill(bands.upper)),
       middle_band |-> bfill(ffill(bands.middle)),
       lower_band |-> bfill(ffill(bands.lower)),
       stoch_k |-> bfill(ffill(stoch.k)),
       stoch_d |-> bfill(ffill(stoch.d))]

\* ------------------------------------------------------------------ state

VARIABLES
  driver,        \* which program runs: "TradingGame", "FakeMoneyGame", "LiveTrader",
                 \* or "MicroStrategy" (the strategy object used on its own)
  strategy,      \* the MicroStrategy object's account fields
  open_long,     \* strategy.data.iloc[-1]["open_long"]
  close_long,    \* strategy.data.iloc[-1]["close_long"]
  data_close,    \* close of the latest candle of the window
  game,          \* the game object's own account (fake_money / balance, btc_holdings, ...)
  start_balance, \* LiveTrader.start_balance
  trades_today,  \* LiveTrader.trades_today
  config,        \* the options of config.json the live trader reads
  paper_trading, \* LiveTrader.paper_trading (the exchange handler keeps its own copy)
  order_sent,    \* the last cycle called create_market_buy/sell_order of the exchange
  order_price,   \* the fill price in the order result of the last cycle, 0 without an order
  feed_price,    \* environment: the price the feed quotes in this tick
  feed_ok,       \* environment: whether the candle fetch of this tick succeeds
  feed_ind,      \* environment: the indicator values for the latest candle
  ex_balance,    \* environment: the USDT total the exchange reports in this tick
  new_day,       \* environment: the calendar date changed since the previous cycle
  data,          \* MicroStrategy.data: the candle window (followed for the indicator runs)
  indicators,    \* the indicator columns of MicroStrategy.data
  latest,        \* environment: the candle get_ohlcv(limit=1) returned to update_price_data
  event,         \* what the driver did in the last tick
  prev_event,    \* what the driver did in the tick before
  position,      \* "LONG" after a committed buy, "FLAT" at start and after a committed sell
  ticks,         \* ticks (cycles) executed so far
  running,       \* the session loop has not ended
  clock,         \* seconds of wall clock since run() / run_game() took start_time
  report,        \* how many final reports generate_report has written
  result,        \* what run() / run_game() returned: "NONE" while it has not returned
  startup,       \* environment: what LiveTrader.__init__ meets at start-up
  config_file,   \* the options stored in config.json on disk
  trader         \* a RealMoneyTrader: its constructor arguments and its exchange

vars == <<driver, strategy, open_long, close_long, data_close, game, start_balance,
          trades_today, config, paper_trading, order_sent, order_price, feed_price, feed_ok,
          feed_ind,
          ex_balance, new_day, data, indicators, latest, event, prev_event, position,
          ticks, running, clock, report, result, startup, config_file, trader>>

env == <<feed_price, feed_ok, feed_ind, ex_balance>>
live == <<start_balance, trades_today, config, paper_trading, order_sent, order_price>>
window == <<data, indicators, latest>>
session == <<clock, report, result>>
boot == <<startup, config_file, trader>>

ClearLog(s) == [s EXCEPT !.log = "NONE"]

\* Position.state after a tick, from the trade lines the tick logged.
NextPosition(pos, s, g) ==
  IF s.log = "BUY" \/ g.log = "BUY" THEN "LONG"
  ELSE IF s.log = "SELL" \/ g.log = "SELL" THEN "FLAT"
  ELSE pos

\* The account of a strategy object, without its log line.
Account(s) == <<s.balance, s.btc_holdings, s.last_buy_price>>

\* ------------------------------------------------------------ TradingGame

\* TradingGame.__init__ / BaseTradingGame.__init__: the game's own account
NewGame(bal) ==
  [starting_balance |-> bal, balance |-> bal, btc_holdings |-> 0, fee |-> 1,
   current_price |-> 0, log |-> "NONE",
   profit_target |-> 15, time_limit |-> 60, balance_history |-> <<>>]

NoGame == NewGame(0)

\* balance < starting_balance * 0.95
RecoveryMode(s, starting_balance) == s.balance * 100 < starting_balance * 95

\* Mutant: execute_game_logic without the recovery branch.
TG_Execute_NoRecovery(s, starting_balance, btc_price, ol, cl) ==
  evaluate_orders(s, btc_price, ol, cl)

\* TradingGame.execute_game_logic, lines 276-294: recovery or normal strategy
TG_Execute(s, starting_balance, btc_price, ol, cl) ==
  IF RecoveryMode(s, starting_balance)
    THEN IF s.btc_holdings > 0
           THEN sell_position(s, Max(btc_price, MulDiv(s.last_buy_price, 103, 100)))
           ELSE IF s.balance >= Dollars(10)
                  THEN buy_position([s EXCEPT !.trade_amount = Mul95(s.balance)], btc_price)
                  ELSE s
    ELSE evaluate_orders(s, btc_price, ol, cl)

\* Mutant: the target is never reached.
TargetReached_Never(total_value, starting_balance, target) == FALSE

\* profit_pct >= target, with profit_pct = (total_value / starting_balance - 1) * 100
TargetReached(total_value, starting_balance, target) ==
  (total_value - starting_balance) * 100 >= target * starting_balance

\* Mutant: the loop condition that never sees the end time.
TimeLeft_Always(now, time_limit) == TRUE

\* Seconds one pass of the session loop takes: the tick and time.sleep(1).
TickSeconds == {1, 2}

\* while time.time() < end_time, with end_time = start_time + time_limit
TimeLeft(now, time_limit) == now < time_limit

\* Mutant: the history keeps the latest entry only.
record_balance_Overwrites(history, cash, btc, price, total_value) ==
  <<[cash |-> cash, btc |-> btc, price |-> price, total_value |-> total_value]>>

\* self.balance_history.append((datetime.now(), cash, btc, price, total_value))
record_balance(history, cash, btc, price, total_value) ==
  Append(history,
         [cash |-> cash, btc |-> btc, price |-> price, total_value |-> total_value])

\* One iteration of TradingGame.run_game: execute_game_logic and the win
\* check.  The profit percentage divides by starting_balance: with a
\* starting balance of 0 the tick raises before it records the balance,
\* and run_game returns False from its except clause.
TG_Tick ==
  /\ driver = "TradingGame" /\ running /\ TimeLeft(clock, game.time_limit)
  /\ ticks < MaxTicks
  /\ \E p \in FeedPrices, ind \in Snapshots, d \in TickSeconds :
       LET ol == OpenLong(ind, p)
           cl == CloseLong(ind, p, strategy.last_buy_price)
           s1 == TG_Execute(ClearLog(strategy), game.starting_balance, p, ol, cl)
           total_value == s1.balance + Value(s1.btc_holdings, p)
           raised == game.starting_balance = 0
           g1 == [game EXCEPT !.balance = s1.balance,
                              !.btc_holdings = s1.btc_holdings,
                              !.current_price = p]
       IN  /\ feed_price' = p /\ feed_ind' = ind
           /\ data_close' = p /\ open_long' = ol /\ close_long' = cl
           /\ strategy' = s1
           /\ game' = IF raised THEN g1
                      ELSE [g1 EXCEPT !.balance_history =
                              record_balance(@, s1.balance, s1.btc_holdings, p,
                                             total_value)]
           /\ event' = IF raised THEN "ERROR" ELSE s1.log
           /\ running' = (~raised /\ ~TargetReached(total_value, game.starting_balance,
                                                    game.profit_target))
           /\ result' = IF raised THEN "FALSE" ELSE result
           /\ clock' = clock + d
  /\ ticks' = ticks + 1
  /\ UNCHANGED <<driver, live, boot, report, feed_ok, ex_balance, new_day, window>>
  /\ prev_event' = event
  /\ position' = NextPosition(position, strategy', game')

\* ---------------------------------------- BaseTradingGame / FakeMoneyGame

\* FakeMoneyGame.execute_trade('buy', amount): the game account and the
\* strategy account after the call
FMG_Buy(g, s, amount) ==
  LET cost == Value(amount, g.current_price)
      fee_cost == MulDiv(cost, g.fee, 1000)
      total_cost == cost + fee_cost
  IN  IF total_cost <= g.balance
        THEN [g |-> [g EXCEPT !.balance = @ - total_cost,
                              !.btc_holdings = @ + amount,
                              !.log = "BUY"],
              s |-> [s EXCEPT !.balance = g.balance - total_cost,
                              !.btc_holdings = g.btc_holdings + amount,
                              !.last_buy_price = g.current_price]]
        ELSE [g |-> [g EXCEPT !.log = "NOT_ENOUGH_FUNDS"], s |-> s]

\* FakeMoneyGame.execute_trade('sell', amount)
FMG_Sell(g, s, amount) ==
  IF amount <= 0
    THEN [g |-> [g EXCEPT !.log = "NO_SELL"], s |-> s]
    ELSE LET proceeds == Value(amount, g.current_price)
             fee_cost == MulDiv(proceeds, g.fee, 1000)
             net_proceeds == proceeds - fee_cost
         IN  [g |-> [g EXCEPT !.balance = @ + net_proceeds,
                              !.btc_holdings = @ - amount,
                              !.log = "SELL"],
              s |-> [s EXCEPT !.balance = g.balance + net_proceeds,
                              !.btc_holdings = g.btc_holdings - amount]]

WithErr(r, e) == [g |-> r.g, s |-> r.s, err |-> e]

\* BaseTradingGame.execute_game_logic, lines 268-287.  evaluate_orders
\* returns None, so the normal branch never calls execute_trade.  err: the
\* forced buy divides by the price.
FMG_Execute(g, s, btc_price, ol, cl) ==
  IF RecoveryMode(s, g.starting_balance)
    THEN IF s.btc_holdings > 0
           THEN WithErr(FMG_Sell(g, s, g.btc_holdings), FALSE)
           ELSE IF s.balance >= Dollars(10)
                  THEN IF btc_price = 0
                         THEN [g |-> g, s |-> s, err |-> TRUE]
                         ELSE WithErr(FMG_Buy(g, s, Coins(Mul95(s.balance), btc_price)), FALSE)
                  ELSE [g |-> g, s |-> s, err |-> FALSE]
    ELSE [g |-> g, s |-> evaluate_orders(s, btc_price, ol, cl), err |-> FALSE]

\* One iteration of BaseTradingGame.run: execute_game_logic and the target
\* check.  A tick that raises (the forced buy at price 0, the profit
\* percentage of a starting balance of 0) records no balance, and run
\* returns False from its except clause.
FMG_Tick ==
  /\ driver = "FakeMoneyGame" /\ running /\ TimeLeft(clock, game.time_limit)
  /\ ticks < MaxTicks
  /\ \E p \in FeedPrices, ind \in Snapshots, d \in TickSeconds :
       LET ol == OpenLong(ind, p)
           cl == CloseLong(ind, p, strategy.last_buy_price)
           g0 == [game EXCEPT !.current_price = p, !.log = "NONE"]
           r == FMG_Execute(g0, ClearLog(strategy), p, ol, cl)
           total_value == r.g.balance + Value(r.g.btc_holdings, p)
           raised == r.err \/ game.starting_balance = 0
       IN  /\ feed_price' = p /\ feed_ind' = ind
           /\ data_close' = p /\ open_long' = ol /\ close_long' = cl
           /\ strategy' = r.s
           /\ game' = IF raised THEN r.g
                      ELSE [r.g EXCEPT !.balance_history =
                              record_balance(@, r.g.balance, r.g.btc_holdings, p,
                                             total_value)]
           /\ event' = IF raised THEN "ERROR"
                       ELSE IF r.g.log # "NONE" THEN r.g.log ELSE r.s.log
           /\ running' = (~raised /\ ~TargetReached(total_value, game.starting_balance,
                                                    game.profit_target))
           /\ result' = IF raised THEN "FALSE" ELSE result
           /\ clock' = clock + d
  /\ ticks' = ticks + 1
  /\ UNCHANGED <<driver, live, boot, report, feed_ok, ex_balance, new_day, window>>
  /\ prev_event' = event
  /\ position' = NextPosition(position, strategy', game')

\* ------------------------------------------ the end of a game session

Games == {"TradingGame", "FakeMoneyGame"}

\* run() / run_game() after the loop: the loop was left by break (target
\* reached) or because the time is up; the profit is computed from the
\* account and the current price, the report is generated, and the
\* comparison with the target is returned.
Game_Finish ==
  /\ driver \in Games /\ result = "NONE"
  /\ ~running \/ ~TimeLeft(clock, game.time_limit)
  /\ LET total_value == game.balance + Value(game.btc_holdings, game.current_price)
     IN  result' = IF TargetReached(total_value, game.starting_balance,
                                    game.profit_target)
                     THEN "TRUE" ELSE "FALSE"
  /\ report' = report + 1
  /\ running' = FALSE
  /\ event' = "REPORT"
  /\ UNCHANGED <<driver, strategy, game, live, boot, env, new_day, window,
                 data_close, open_long, close_long, ticks, clock, position>>
  /\ prev_event' = event

\* except KeyboardInterrupt in run() / run_game(): the report is generated
\* and False is returned.  With no balance recorded yet, generate_report
\* raises (max of an empty list) and run() returns nothing.
Game_Interrupt ==
  /\ driver \in Games /\ running /\ TimeLeft(clock, game.time_limit)
  /\ IF game.balance_history = <<>>
       THEN result' = "RAISED" /\ report' = report
       ELSE result' = "FALSE" /\ report' = report + 1
  /\ running' = FALSE
  /\ event' = "INTERRUPTED"
  /\ UNCHANGED <<driver, strategy, game, live, boot, env, new_day, window,
                 data_close, open_long, close_long, ticks, clock, position>>
  /\ prev_event' = event

\* ------------------------------------------------------------- LiveTrader

\* The configurations of config.json the model runs the live trader with.
\* starting_balance is the simulated balance of paper trading; for a real
\* account it stands for the balance the exchange reports at start-up.
Configs ==
  [starting_balance : StartBalances,
   fee_percentage : {1},                \* in thousandths: 0.1 percent
   max_daily_trades : {1, 3},
   max_daily_drawdown_percent : {5},
   paper_trading_mode : BOOLEAN,
   trading_enabled : BOOLEAN]
  \cup
  \* a paper account that starts with exactly the minimum trade floor
  [starting_balance : {Dollars(10)},
   fee_percentage : {1},
   max_daily_trades : {3},
   max_daily_drawdown_percent : {5},
   paper_trading_mode : {TRUE},
   trading_enabled : {TRUE}]

NoConfig ==
  [starting_balance |-> 0, fee_percentage |-> 0, max_daily_trades |-> 0,
   max_daily_drawdown_percent |-> 0, paper_trading_mode |-> TRUE,
   trading_enabled |-> FALSE]

\* What the exchange can report as the USDT total of an account that
\* started with start: unchanged, 5 % down, or 0 (the
\* value get_balance returns when the fetch fails).
ExchangeBalances(start) == {start, MulDiv(start, 95, 100), 0}

\* The USDT total of a real account whose orders were filled as the
\* strategy booked them: the cash that is left after converting cash into
\* the asset.
AccountCash(s) == s.balance

\* What the exchange can report in a cycle: one of ExchangeBalances, or,
\* while a position is open, the cash the buy left.
ExchangeReports(s, start) ==
  ExchangeBalances(start) \cup (IF s.btc_holdings > 0 THEN {AccountCash(s)} ELSE {})

\* ExchangeHandler.get_balance
get_balance(cfg, ex) ==
  IF cfg.paper_trading_mode THEN cfg.starting_balance ELSE ex

\* Mutant: the trade limit compared with > instead of >=.
TradeLimitReached_OffByOne(trades, cfg) == trades > cfg.max_daily_trades

\* _check_risk_limits, line 192
TradeLimitReached(trades, cfg) == trades >= cfg.max_daily_trades

\* Mutant: the drawdown limit compared with < instead of <=.
DrawdownExceeded_Exclusive(current_balance, starting_balance, cfg) ==
  (current_balance - starting_balance) * 100
     < (0 - cfg.max_daily_drawdown_percent) * starting_balance

\* _check_risk_limits, lines 197-202: ((current / starting) - 1) * 100 <= -abs(max)
DrawdownExceeded(current_balance, starting_balance, cfg) ==
  (current_balance - starting_balance) * 100
     <= (0 - cfg.max_daily_drawdown_percent) * starting_balance

\* Mutant: the risk check that pauses unless the balance is above the start.
check_risk_limits_AnyLoss(trades, cfg, start, ex) ==
  IF TradeLimitReached(trades, cfg) THEN FALSE
  ELSE IF get_balance(cfg, ex) <= start THEN FALSE
  ELSE TRUE

\* LiveTrader._check_risk_limits: TRUE when trading may go on
check_risk_limits(trades, cfg, start, ex) ==
  IF TradeLimitReached(trades, cfg) THEN FALSE
  ELSE IF DrawdownExceeded(get_balance(cfg, ex), start, cfg) THEN FALSE
  ELSE TRUE

\* ExchangeHandler.place_market_buy / place_market_sell: whether an order
\* object comes back.  With trading disabled a "simulated" order is
\* returned, a paper trade always returns one, a real order can fail.
OrderOutcomes(cfg) ==
  IF ~cfg.trading_enabled \/ cfg.paper_trading_mode THEN {TRUE} ELSE {TRUE, FALSE}

\* The "price" of an order result for a market order placed while the
\* candle closes at price: the ticker's last price of a paper trade
\* (lines 119-121, 141-143) or the fill the exchange reports, which is the
\* close or a dollar above it.
FillPrices(price) == {price, price + PScale}

\* What comes back for an order of a cycle: accepted with one of the fill
\* prices, or refused (None) where OrderOutcomes allows it.
OrderResults(cfg, price) ==
  [accepted : {TRUE}, price : FillPrices(price)]
    \cup {[accepted |-> FALSE, price |-> 0] : x \in OrderOutcomes(cfg) \ {TRUE}}

\* A cycle that places no order.
NoOrder == [accepted |-> TRUE, price |-> 0]

\* Mutant: a paper session that places its orders on the exchange.
place_market_order_PaperGoesLive(cfg, accepted) ==
  IF ~cfg.trading_enabled THEN [order |-> TRUE, endpoint |-> FALSE]
  ELSE [order |-> accepted, endpoint |-> TRUE]

\* ExchangeHandler.place_market_buy / place_market_sell with the flags the
\* handler read from cfg: the order object that comes back (order) and
\* whether create_market_buy_order / create_market_sell_order of the
\* exchange was called (endpoint)
place_market_order(cfg, accepted) ==
  IF ~cfg.trading_enabled THEN [order |-> TRUE, endpoint |-> FALSE]
  ELSE IF cfg.paper_trading_mode THEN [order |-> TRUE, endpoint |-> FALSE]
  ELSE [order |-> accepted, endpoint |-> TRUE]

\* LiveTrader._execute_buy
execute_buy(s, trades, cfg, price, order) ==
  IF ~cfg.trading_enabled THEN [s |-> s, trades |-> trades, event |-> "BUY_DISABLED"]
  ELSE IF order
    THEN [s |-> buy_position(s, price), trades |-> trades + 1, event |-> "BUY_ORDER"]
    ELSE [s |-> s, trades |-> trades, event |-> "BUY_FAILED"]

\* Mutant: _execute_sell that does not count the order.
execute_sell_NotCounted(s, trades, cfg, price, order) ==
  IF ~cfg.trading_enabled THEN [s |-> s, trades |-> trades, event |-> "SELL_DISABLED"]
  ELSE IF order
    THEN [s |-> sell_position(s, price), trades |-> trades, event |-> "SELL_ORDER"]
    ELSE [s |-> s, trades |-> trades, event |-> "SELL_FAILED"]

\* LiveTrader._execute_sell
execute_sell(s, trades, cfg, price, order) ==
  IF ~cfg.trading_enabled THEN [s |-> s, trades |-> trades, event |-> "SELL_DISABLED"]
  ELSE IF order
    THEN [s |-> sell_position(s, price), trades |-> trades + 1, event |-> "SELL_ORDER"]
    ELSE [s |-> s, trades |-> trades, event |-> "SELL_FAILED"]

\* run_trading_loop, lines 239-244: the trade of a cycle
Live_Trade(s, trades, cfg, price, buy_signal, sell_signal, order) ==
  IF s.btc_holdings > 0 /\ sell_signal THEN execute_sell(s, trades, cfg, price, order)
  ELSE IF s.balance > Dollars(10) /\ buy_signal THEN execute_buy(s, trades, cfg, price, order)
  ELSE [s |-> s, trades |-> trades, event |-> "IDLE"]

\* What a cycle's candle fetch can give: no candle, or a price with the
\* indicator values computed on the window it ends.
LiveFeeds ==
  {[ok |-> FALSE, price |-> 0, ind |-> Neutral]}
    \cup [ok : {TRUE}, price : FeedPrices, ind : Snapshots]

\* Mutant: a price of 0 counts as a price.
PriceUpdated_ZeroCounts(feed) == feed.ok

\* update_price_data and "if not current_price", lines 163-165, 185-187 and
\* 220-225: the candle fetch gave a candle and its close is not 0
PriceUpdated(feed) == feed.ok /\ feed.price # 0

\* Whether lines 239-244 reach place_market_buy / place_market_sell.
OrderPlaced(s, cfg, buy_signal, sell_signal) ==
  /\ cfg.trading_enabled
  /\ \/ s.btc_holdings > 0 /\ sell_signal
     \/ s.balance > Dollars(10) /\ buy_signal

\* What LiveTrader.__init__ can meet: everything in order, or one thing
\* wrong.  exchange: "ok", "unsupported" (not an exchange of ccxt) or
\* "unreachable" (load_markets fails); candles: how many historical
\* candles get_ohlcv returns; answer: what the operator types when asked
\* to confirm real trading; balance_fetched: whether fetch_balance works.
GoodStartup ==
  [config_loaded |-> TRUE, exchange |-> "ok", balance_fetched |-> TRUE,
   candles |-> 100, answer |-> "CONFIRM"]

Startups ==
  {GoodStartup,
   [GoodStartup EXCEPT !.config_loaded = FALSE],
   [GoodStartup EXCEPT !.exchange = "unsupported"],
   [GoodStartup EXCEPT !.exchange = "unreachable"],
   [GoodStartup EXCEPT !.balance_fetched = FALSE],
   [GoodStartup EXCEPT !.candles = 99],
   [GoodStartup EXCEPT !.candles = 0],
   [GoodStartup EXCEPT !.answer = "yes"]}

NoStartup == [GoodStartup EXCEPT !.candles = 0, !.answer = "NONE"]

\* Start-up only reads what the configuration makes it read: the markets
\* are loaded and the balance is fetched for a real account only, the
\* operator is asked only when real trading is configured and enabled.
StartupRead(cfg, st) ==
  /\ st.exchange = "unreachable" => ~cfg.paper_trading_mode
  /\ ~st.balance_fetched => ~cfg.paper_trading_mode
  /\ st.answer # "CONFIRM" => ~cfg.paper_trading_mode /\ cfg.trading_enabled

\* Mutant: 99 candles are enough.
EnoughCandles_OneLess(n) == n >= 99

\* _initialize_price_data, line 138: not ohlcv or len(ohlcv) < 100 raises
EnoughCandles(n) == n >= 100

\* _load_config, ExchangeHandler.__init__ and _initialize_price_data:
\* whether LiveTrader(config_path) raises
StartupRaises(cfg, st) ==
  \/ ~st.config_loaded
  \/ st.exchange = "unsupported"
  \/ st.exchange = "unreachable" /\ ~cfg.paper_trading_mode
  \/ ~EnoughCandles(st.candles)

\* _display_warnings, lines 100-116: real trading is configured and the
\* operator does not type CONFIRM
Demoted(cfg, st) ==
  ~cfg.paper_trading_mode /\ cfg.trading_enabled /\ st.answer # "CONFIRM"

\* main(): LiveTrader(args.config).  The exchange handler is constructed
\* from the configuration as loaded and keeps it; _display_warnings runs
\* last and changes LiveTrader.paper_trading and the file.
Live_Startup ==
  /\ driver = "LiveTrader" /\ event = "NEW"
  /\ IF StartupRaises(config_file, startup)
       THEN /\ event' = "ABORTED"
            /\ running' = FALSE
            /\ UNCHANGED <<config, start_balance, ex_balance, strategy,
                           paper_trading, config_file>>
       ELSE LET cfg == config_file
                b == get_balance(cfg, IF startup.balance_fetched
                                        THEN cfg.starting_balance ELSE 0)
            IN  /\ config' = cfg
                /\ start_balance' = b
                /\ ex_balance' = b
                /\ strategy' = NewStrategy(b, 0, cfg.fee_percentage)
                /\ paper_trading' = (cfg.paper_trading_mode \/ Demoted(cfg, startup))
                /\ config_file' = IF Demoted(cfg, startup)
                                    THEN [cfg EXCEPT !.paper_trading_mode = TRUE]
                                    ELSE cfg
                /\ event' = "INIT"
                /\ running' = TRUE
  /\ UNCHANGED <<driver, game, trades_today, order_sent, order_price, session, startup, trader,
                 feed_price,
                 feed_ok, feed_ind, new_day, window, data_close, open_long, close_long,
                 ticks, position>>
  /\ prev_event' = event

\* _check_risk_limits, line 199: current_balance / starting_balance raises
\* for a start balance of 0 once the trade limit check is passed
RiskCheckRaises(trades, cfg, start) ==
  ~TradeLimitReached(trades, cfg) /\ start = 0

\* ExchangeHandler.place_market_buy / place_market_sell, lines 124-127 and
\* 146-149: the last cycle called create_market_buy_order or
\* create_market_sell_order of the exchange
RealOrderSent == driver = "LiveTrader" /\ order_sent

\* except KeyboardInterrupt in run_trading_loop: the loop ends, a line is logged
Live_Interrupt ==
  /\ driver = "LiveTrader" /\ running
  /\ running' = FALSE
  /\ event' = "INTERRUPTED"
  /\ UNCHANGED <<driver, strategy, game, live, session, boot, env, new_day, window,
                 data_close, open_long, close_long, ticks, position>>
  /\ prev_event' = event

\* One iteration of LiveTrader.run_trading_loop.  An exception of the
\* iteration is caught outside the loop: it is logged and the loop ends.
Live_Cycle ==
  /\ driver = "LiveTrader" /\ running /\ ticks < MaxTicks
  /\ new_day' \in BOOLEAN
  /\ \E feed \in LiveFeeds,
        ex \in (IF config.paper_trading_mode THEN {config.starting_balance}
                ELSE ExchangeReports(strategy, start_balance)) :
       LET p == feed.price
           ol == OpenLong(feed.ind, p)
           cl == CloseLong(feed.ind, p, strategy.last_buy_price)
       IN
       /\ feed_price' = p /\ feed_ok' = feed.ok /\ feed_ind' = feed.ind
       /\ ex_balance' = ex
       /\ IF RiskCheckRaises(trades_today, config, start_balance)
            THEN \* ZeroDivisionError, caught by except Exception
                 /\ event' = "ERROR"
                 /\ running' = FALSE
                 /\ order_sent' = FALSE /\ order_price' = 0
                 /\ UNCHANGED <<strategy, trades_today, data_close, open_long, close_long>>
            ELSE IF ~check_risk_limits(trades_today, config, start_balance, ex)
            THEN \* risk limits exceeded: sleep and check again
                 /\ event' = "PAUSED"
                 /\ order_sent' = FALSE /\ order_price' = 0
                 /\ UNCHANGED <<strategy, trades_today, data_close, open_long, close_long,
                                running>>
            ELSE IF ~PriceUpdated(feed)
            THEN \* "not current_price": the cycle is skipped.  A candle that
                 \* was fetched is in price_data, the strategy did not get it
                 /\ event' = "SKIPPED"
                 /\ order_sent' = FALSE /\ order_price' = 0
                 /\ data_close' = IF feed.ok THEN p ELSE data_close
                 /\ UNCHANGED <<strategy, trades_today, open_long, close_long, running>>
            ELSE \E fills \in (IF OrderPlaced(strategy, config, ol, cl)
                                 THEN OrderResults(config, p) ELSE {NoOrder}) :
                   LET order == fills.accepted
                       fill == fills.price
                       placed == place_market_order(config, order)
                       r == Live_Trade(ClearLog(strategy), trades_today, config,
                                       p, ol, cl, placed.order)
                   IN  /\ data_close' = p /\ open_long' = ol /\ close_long' = cl
                       /\ order_sent' = (OrderPlaced(strategy, config, ol, cl)
                                          /\ placed.endpoint)
                       /\ order_price' = IF placed.order THEN fill ELSE 0
                       /\ strategy' = r.s
                       /\ trades_today' = r.trades
                       /\ event' = r.event
                       /\ running' = running
  /\ ticks' = ticks + 1
  /\ UNCHANGED <<driver, game, start_balance, config, paper_trading, window,
                 session, boot>>
  /\ prev_event' = event
  /\ position' = NextPosition(position, strategy', game')

\* --------------------------------------------------------- RealMoneyTrader

\* Constructor arguments: a key or secret is None ("NONE"), empty or given;
\* the exchange name comes in any case and may be one the trader does not
\* know; connects: whether test_exchange_connection gets through.
Credentials == {"NONE", "", "given"}
ExchangeNames == {"dryrun", "coinbase", "Binance", "kraken"}

\* not api_key, not api_secret
Missing(credential) == credential \in {"NONE", ""}

\* exchange.lower()
Lower(name) == IF name = "Binance" THEN "binance" ELSE name

\* Mutant: a failed connection test that leaves the exchange as it was.
setup_exchange_KeepsExchange(exchange, api_key, api_secret, connects) ==
  IF exchange = "dryrun" THEN [exchange |-> "dryrun", ok |-> TRUE]
  ELSE IF exchange \in {"coinbase", "binance"}
    THEN IF Missing(api_key) \/ Missing(api_secret)
           THEN [exchange |-> "dryrun", ok |-> FALSE]
           ELSE IF ~connects THEN [exchange |-> exchange, ok |-> FALSE]
           ELSE [exchange |-> exchange, ok |-> TRUE]
    ELSE [exchange |-> "dryrun", ok |-> FALSE]

\* RealMoneyTrader.setup_exchange: the exchange the trader is left with and
\* the value returned
setup_exchange(exchange, api_key, api_secret, connects) ==
  IF exchange = "dryrun" THEN [exchange |-> "dryrun", ok |-> TRUE]
  ELSE IF exchange \in {"coinbase", "binance"}
    THEN IF Missing(api_key) \/ Missing(api_secret)
           THEN [exchange |-> "dryrun", ok |-> FALSE]
           ELSE IF ~connects THEN [exchange |-> "dryrun", ok |-> FALSE]
           ELSE [exchange |-> exchange, ok |-> TRUE]
    ELSE [exchange |-> "dryrun", ok |-> FALSE]

NoTrader ==
  [api_key |-> "NONE", api_secret |-> "NONE", exchange_name |-> "dryrun",
   connects |-> FALSE, exchange |-> "NONE", constructed |-> FALSE]

\* RealMoneyTrader(100, api_key, api_secret, None, exchange).  When
\* setup_exchange returns True the constructor calls refresh_balances,
\* which no class defines: the constructor raises and there is no trader.
RMT_Construct ==
  /\ driver = "RealMoneyTrader" /\ event = "NEW"
  /\ LET exchange == IF Missing(trader.api_key) \/ Missing(trader.api_secret)
                       THEN "dryrun" ELSE Lower(trader.exchange_name)
         r == setup_exchange(exchange, trader.api_key, trader.api_secret,
                             trader.connects)
     IN  /\ trader' = [trader EXCEPT !.exchange = r.exchange, !.constructed = ~r.ok]
         /\ event' = IF r.ok THEN "ABORTED" ELSE "INIT"
  /\ game' = NewGame(Dollars(100))
  /\ UNCHANGED <<driver, strategy, live, session, startup, config_file, env, new_day,
                 window, data_close, open_long, close_long, ticks, running, position>>
  /\ prev_event' = event

\* ------------------------------------------- MicroStrategy used on its own

\* Asset holdings a strategy object can be constructed with.
StartHoldings == {0, Scale}

\* A balance of exactly the minimum trade floor of 10; a losing round trip
\* from it leaves a flat account below the floor.
FloorBalances == {Dollars(10)}

\* A caller refreshes the signals of the latest row and runs evaluate_orders.
Strat_Evaluate ==
  /\ driver = "MicroStrategy" /\ ticks < MaxTicks
  /\ \E p \in Prices, ind \in Snapshots :
       LET ol == OpenLong(ind, p)
           cl == CloseLong(ind, p, strategy.last_buy_price)
       IN  /\ feed_price' = p /\ feed_ind' = ind
           /\ data_close' = p /\ open_long' = ol /\ close_long' = cl
           /\ strategy' = evaluate_orders(strategy, p, ol, cl)
           /\ event' = "EVALUATE"
  /\ ticks' = ticks + 1
  /\ UNCHANGED <<driver, game, live, session, boot, feed_ok, ex_balance, running, new_day, window>>
  /\ prev_event' = event
  /\ position' = NextPosition(position, strategy', game')

\* A caller calls buy_position directly.
Strat_Buy ==
  /\ driver = "MicroStrategy" /\ ticks < MaxTicks
  /\ \E p \in Prices :
       /\ feed_price' = p
       /\ strategy' = buy_position(ClearLog(strategy), p)
       /\ event' = "BUY_CALL"
  /\ ticks' = ticks + 1
  /\ UNCHANGED <<driver, game, live, session, boot, feed_ok, feed_ind, ex_balance, running,
                 data_close, open_long, close_long, new_day, window>>
  /\ prev_event' = event
  /\ position' = NextPosition(position, strategy', game')

\* A caller calls sell_position directly.
Strat_Sell ==
  /\ driver = "MicroStrategy" /\ ticks < MaxTicks
  /\ \E p \in Prices :
       /\ feed_price' = p
       /\ strategy' = sell_position(ClearLog(strategy), p)
       /\ event' = "SELL_CALL"
  /\ ticks' = ticks + 1
  /\ UNCHANGED <<driver, game, live, session, boot, feed_ok, feed_ind, ex_balance, running,
                 data_close, open_long, close_long, new_day, window>>
  /\ prev_event' = event
  /\ position' = NextPosition(position, strategy', game')

\* Closes of the rows the signals are refreshed on: 100 and 102.5.
SignalPrices == {100 * PScale, 102500}

\* A caller refreshes the indicators and the signals and does nothing else.
Strat_Signals ==
  /\ driver = "MicroStrategy" /\ ticks < MaxTicks
  /\ \E p \in SignalPrices, ind \in {Neutral, Bullish} \cup EdgeSnapshots :
       LET r == populate_signals(ClearLog(strategy), ind, p)
       IN  /\ feed_price' = p /\ feed_ind' = ind
           /\ data_close' = p /\ open_long' = r.open_long /\ close_long' = r.close_long
           /\ strategy' = r.s
           /\ event' = "SIGNALS"
  /\ ticks' = ticks + 1
  /\ UNCHANGED <<driver, game, live, session, boot, feed_ok, ex_balance, running, new_day, window>>
  /\ prev_event' = event
  /\ position' = NextPosition(position, strategy', game')

\* ------------------------------------------- the candle window of a strategy

\* No candle has been fetched.
NoCandle == [timestamp |-> 0, close |-> 0]

KeepLast_NoCap(rows, cap) == rows

\* df.iloc[-cap:] behind `if len(df) > cap`: the last cap rows of the window
KeepLast(rows, cap) ==
  IF Len(rows) > cap THEN SubSeq(rows, Len(rows) - cap + 1, Len(rows)) ELSE rows

\* Closes of the windows a strategy object is constructed with: a flat, a
\* rising and an alternating series.
Shapes == {"flat", "rising", "zigzag"}

CloseOf(shape, i) ==
  IF shape = "flat" THEN 100 * PScale
  ELSE IF shape = "rising" THEN 100 * PScale + 500 * i
  ELSE IF i % 2 = 1 THEN 100 * PScale ELSE 99 * PScale

WindowOf(shape, n) ==
  [i \in 1..n |-> Candle(CloseOf(shape, IF i = 1 THEN 1 ELSE i - 1), CloseOf(shape, i))]

Windows == {WindowOf(shape, n) : shape \in Shapes, n \in 1..MaxWindow}

\* Prices of the candles a game appends to the window.
WindowPrices == {99 * PScale, 100500}

\* execute_game_logic, lines 230-249: a row for the new price is appended,
\* the window is cut to its last 500 rows and the indicators are recomputed.
Ind_Append ==
  /\ driver = "Window" /\ ticks < MaxTicks
  /\ \E p \in WindowPrices :
       LET row == Candle(data[Len(data)].close, p)
           kept == KeepLast(Append(data, row), 500)
       IN  /\ data' = kept
           /\ indicators' = populate_indicators(kept, strategy_params)
           /\ feed_price' = p /\ data_close' = p
  /\ event' = "APPEND"
  /\ ticks' = ticks + 1
  /\ UNCHANGED <<driver, strategy, game, live, session, boot, feed_ok, feed_ind, ex_balance, running,
                 open_long, close_long, new_day, latest>>
  /\ prev_event' = event
  /\ position' = NextPosition(position, strategy', game')

\* populate_indicators is called again on the window as it is.
Ind_Populate ==
  /\ driver = "Window" /\ ticks < MaxTicks
  /\ indicators' = populate_indicators(data, strategy_params)
  /\ event' = "POPULATE"
  /\ ticks' = ticks + 1
  /\ UNCHANGED <<driver, strategy, game, live, session, boot, env, running, data, data_close,
                 open_long, close_long, new_day, latest>>
  /\ prev_event' = event
  /\ position' = NextPosition(position, strategy', game')

\* ------------------------------------------- the length of the candle window

\* A window of n rows with one candle per timestamp 1..n.
RowsOf(n) == [i \in 1..n |-> [timestamp |-> i, close |-> CloseOf("zigzag", i)]]

\* LiveTrader starts with the 100 to 200 candles _initialize_price_data
\* accepts and has 299 or 300 after enough new candles.
LiveLengths == {100, 200, 299, 300}

\* The window load_price_data gives a game: the 100 synthetic rows, a file
\* of any length, or the hourly rows of 30 days from the price API (720).
GameLengths == {100, 499, 500, 720}

\* LiveTrader.update_price_data, lines 157-181, on the window: the candle
\* fetched replaces the last row if it has the last row's timestamp, else it
\* is appended; the window keeps its last 300 rows.
update_price_data(rows, fetched) ==
  LET updated == IF Len(rows) > 0 /\ fetched.timestamp = rows[Len(rows)].timestamp
                   THEN [rows EXCEPT ![Len(rows)] = fetched]
                   ELSE Append(rows, fetched)
  IN  KeepLast(updated, 300)

\* One call of LiveTrader.update_price_data: the exchange returns the candle
\* of the current period, the candle of the next period, or nothing.
Live_UpdatePrice ==
  /\ driver = "LiveWindow" /\ ticks < MaxTicks
  /\ \E ok \in BOOLEAN, step \in {0, 1}, p \in WindowPrices :
       LET fetched == [timestamp |-> data[Len(data)].timestamp + step, close |-> p]
       IN  /\ feed_ok' = ok /\ feed_price' = p
           /\ latest' = IF ok THEN fetched ELSE NoCandle
           /\ data' = IF ok THEN update_price_data(data, fetched) ELSE data
           /\ data_close' = IF ok THEN p ELSE data_close
           /\ event' = IF ok THEN "UPDATED" ELSE "NOPRICE"
  /\ ticks' = ticks + 1
  /\ UNCHANGED <<driver, strategy, game, live, session, boot, feed_ind, ex_balance, running,
                 open_long, close_long, new_day, indicators>>
  /\ prev_event' = event
  /\ position' = NextPosition(position, strategy', game')

\* execute_game_logic, lines 229-245 (trading_game.py 237-253), on the
\* window: a copy of the last row with the new close is appended and the
\* window keeps its last 500 rows.
Game_AppendCandle ==
  /\ driver = "GameWindow" /\ ticks < MaxTicks
  /\ \E p \in WindowPrices :
       LET latest_row == [data[Len(data)] EXCEPT !.close = p]
       IN  /\ feed_price' = p /\ data_close' = p
           /\ latest' = latest_row
           /\ data' = KeepLast(Append(data, latest_row), 500)
  /\ event' = "APPEND"
  /\ ticks' = ticks + 1
  /\ UNCHANGED <<driver, strategy, game, live, session, boot, feed_ok, feed_ind, ex_balance,
                 running, open_long, close_long, new_day, indicators>>
  /\ prev_event' = event
  /\ position' = NextPosition(position, strategy', game')

\* ---------------------------------------------------------- specifications

\* The specifications of the drivers work on the latest row of the window
\* only (data_close, feed_ind); the window itself is not followed there.
WindowNotFollowed ==
  data = <<>> /\ indicators = populate_indicators(<<>>, strategy_params) /\ latest = NoCandle

InitRow ==
  /\ open_long = FALSE /\ close_long = FALSE
  /\ data_close = Price(100)
  /\ feed_price = Price(100) /\ feed_ok = TRUE /\ feed_ind = Neutral
  /\ prev_event = "INIT" /\ ticks = 0
  /\ new_day = FALSE
  /\ position = IF strategy.btc_holdings > 0 THEN "LONG" ELSE "FLAT"
  /\ trades_today = 0
  /\ clock = 0 /\ report = 0 /\ result = "NONE"
  /\ order_sent = FALSE /\ order_price = 0

InitCommon ==
  /\ InitRow
  /\ event = "INIT" /\ running = TRUE

NoBoot == startup = NoStartup /\ config_file = NoConfig /\ trader = NoTrader

\* Starting balances of a game: --balance takes any number, 0 included.
GameBalances == StartBalances \cup {0}

\* --target and --time of a game (profit_target, time_limit of a session)
Targets == {1, 15}
TimeLimits == {2, MaxTicks}

\* TradingGame(starting_balance) / FakeMoneyGame(starting_balance)
InitGame ==
  /\ driver \in {"TradingGame", "FakeMoneyGame"}
  /\ \E b \in GameBalances, target \in Targets, limit \in TimeLimits :
       /\ game = [NewGame(b) EXCEPT !.profit_target = target, !.time_limit = limit]
       /\ strategy = NewStrategy(b, 0, 1)
  /\ start_balance = 0 /\ config = NoConfig /\ paper_trading = TRUE
  /\ ex_balance = 0
  /\ NoBoot
  /\ WindowNotFollowed
  /\ InitCommon

\* live_trader.py main(), before LiveTrader(args.config): the file on disk
\* and what start-up is going to meet
InitLive ==
  /\ driver = "LiveTrader"
  /\ config_file \in Configs
  /\ startup \in {st \in Startups : StartupRead(config_file, st)}
  /\ trader = NoTrader
  /\ config = NoConfig
  /\ start_balance = 0 /\ ex_balance = 0
  /\ strategy = NewStrategy(0, 0, 0)
  /\ paper_trading = TRUE
  /\ game = NoGame
  /\ WindowNotFollowed
  /\ InitRow
  /\ event = "NEW" /\ running = FALSE

\* MicroStrategy(params, data, balance, btc_holdings)
InitStrategy ==
  /\ driver = "MicroStrategy"
  /\ \/ \E b \in StartBalances, h \in StartHoldings : strategy = NewStrategy(b, h, 1)
     \/ \E b \in FloorBalances : strategy = NewStrategy(b, 0, 1)
  /\ game = NoGame
  /\ start_balance = 0 /\ config = NoConfig /\ paper_trading = TRUE
  /\ ex_balance = 0
  /\ NoBoot
  /\ WindowNotFollowed
  /\ InitCommon

\* MicroStrategy(params, data): populate_indicators runs in __init__
InitIndicators ==
  /\ driver = "Window"
  /\ data \in Windows
  /\ indicators = populate_indicators(data, strategy_params)
  /\ latest = NoCandle
  /\ strategy = NewStrategy(Dollars(100), 0, 1)
  /\ game = NoGame
  /\ start_balance = 0 /\ config = NoConfig /\ paper_trading = TRUE
  /\ ex_balance = 0
  /\ NoBoot
  /\ InitCommon

\* The candle window of a running LiveTrader or of a game at its start.
InitPriceData ==
  /\ \/ driver = "LiveWindow" /\ \E n \in LiveLengths : data = RowsOf(n)
     \/ driver = "GameWindow" /\ \E n \in GameLengths : data = RowsOf(n)
  /\ indicators = populate_indicators(<<>>, strategy_params)
  /\ latest = NoCandle
  /\ strategy = NewStrategy(Dollars(100), 0, 1)
  /\ game = NoGame
  /\ start_balance = 0 /\ config = NoConfig /\ paper_trading = TRUE
  /\ ex_balance = 0
  /\ NoBoot
  /\ InitCommon

\* Before RealMoneyTrader(...): the arguments of the call and the network
InitTrader ==
  /\ driver = "RealMoneyTrader"
  /\ trader \in [api_key : Credentials, api_secret : Credentials,
                  exchange_name : ExchangeNames, connects : BOOLEAN,
                  exchange : {"NONE"}, constructed : {FALSE}]
  /\ strategy = NewStrategy(0, 0, 0)
  /\ game = NoGame
  /\ start_balance = 0 /\ config = NoConfig /\ paper_trading = TRUE
  /\ ex_balance = 0
  /\ startup = NoStartup /\ config_file = NoConfig
  /\ WindowNotFollowed
  /\ InitRow
  /\ event = "NEW" /\ running = FALSE

Init == InitGame \/ InitLive \/ InitTrader

Next ==
  \/ TG_Tick \/ FMG_Tick \/ Game_Finish \/ Game_Interrupt
  \/ Live_Startup \/ Live_Cycle \/ Live_Interrupt
  \/ RMT_Construct

\* The three session drivers.
Spec == Init /\ [][Next]_vars

NextGame == TG_Tick \/ FMG_Tick \/ Game_Finish \/ Game_Interrupt

\* A game session in which time advances and every tick returns: a tick
\* that can start does start, and the code after the loop runs once the
\* loop is left.  The user may or may not interrupt.
SpecGame ==
  /\ InitGame /\ [][NextGame]_vars
  /\ WF_vars(TG_Tick \/ FMG_Tick) /\ WF_vars(Game_Finish)

NextStrategy == Strat_Evaluate \/ Strat_Buy \/ Strat_Sell \/ Strat_Signals

\* The strategy object driven directly through its public methods.
SpecStrategy == InitStrategy /\ [][NextStrategy]_vars

\* The drivers and the directly driven strategy object together.
SpecAll == (Init \/ InitStrategy) /\ [][Next \/ NextStrategy]_vars

NextIndicators == Ind_Append \/ Ind_Populate

\* The indicator columns of a strategy object whose window grows.
SpecIndicators == InitIndicators /\ [][NextIndicators]_vars

NextPriceData == Live_UpdatePrice \/ Game_AppendCandle

\* The rows of the candle window under the price updates of the drivers.
SpecPriceData == InitPriceData /\ [][NextPriceData]_vars

\* ------------------------------------------------------------------ claims

\* A tick of a driver, or a call on the strategy object, has just been taken.
Stepped == ticks' = ticks + 1

\* C1: the cash balance is never negative, neither the strategy's nor the
\* game's own, in any state a driver reaches.
C1_CashNeverNegative == strategy.balance >= 0 /\ game.balance >= 0

\* C2: the live trader never commits a buy while a position is open: a
\* cycle that starts with holdings > 0 does not increase the holdings.
C2_NoBuyWhileOpen ==
  [][(driver = "LiveTrader" /\ strategy.btc_holdings > 0)
       => strategy'.btc_holdings <= strategy.btc_holdings]_vars

\* C3: the asset holding is > 0 exactly when the position is LONG (the
\* last committed trade was a buy) and 0 when it is FLAT.
C3_HoldingsIffLong ==
  /\ position = "LONG" => strategy.btc_holdings > 0
  /\ position = "FLAT" => strategy.btc_holdings = 0

\* C3 witness: a position was opened by a buy and closed again by a sell.
C3_Witness ==
  position = "FLAT" /\ event \in {"SELL", "SELL_ORDER"} /\ strategy.btc_holdings = 0

\* C4: every committed buy spends 95 % of the cash held at that moment,
\* credits (0.95 * cash / price) * (1 - fee) coins and records the price.
C4_BuyUses95Percent ==
  [][(Stepped /\ strategy'.log = "BUY" /\ strategy'.btc_holdings > strategy.btc_holdings)
       => /\ strategy'.balance = strategy.balance - Mul95(strategy.balance)
          /\ strategy'.btc_holdings = strategy.btc_holdings
               + NetOfFee(Coins(Mul95(strategy.balance), feed_price'), strategy.fee)
          /\ strategy'.last_buy_price = feed_price']_vars

\* C5: after every committed sell the holdings are 0 and the entry price
\* is cleared (last_buy_price = 0).
C5_SellClearsEntry ==
  (event \in {"SELL", "SELL_ORDER"} /\ strategy.log = "SELL")
     => (strategy.btc_holdings = 0 /\ strategy.last_buy_price = 0)

\* C6 as stated: with a position open at a known entry price e, a close c
\* with c >= e * 1.025 or c <= e * 0.985 makes evaluate_orders sell the
\* whole holding, whatever the signals, for holdings * c * (1 - fee).
C6_ThresholdsAlwaysClose ==
  [][(/\ event' = "EVALUATE"
      /\ strategy.btc_holdings > 0 /\ strategy.last_buy_price > 0
      /\ \/ feed_price' * 1000 >= strategy.last_buy_price * 1025
         \/ feed_price' * 1000 <= strategy.last_buy_price * 985)
       => /\ strategy'.btc_holdings = 0
          /\ strategy'.balance = strategy.balance
               + NetOfFee(Value(strategy.btc_holdings, feed_price'), strategy.fee)]_vars

\* C6 amended: the same for every positive close c.
C6_ThresholdsClose ==
  [][(/\ event' = "EVALUATE"
      /\ strategy.btc_holdings > 0 /\ strategy.last_buy_price > 0
      /\ feed_price' > 0
      /\ \/ feed_price' * 1000 >= strategy.last_buy_price * 1025
         \/ feed_price' * 1000 <= strategy.last_buy_price * 985)
       => /\ strategy'.btc_holdings = 0
          /\ strategy'.balance = strategy.balance
               + NetOfFee(Value(strategy.btc_holdings, feed_price'), strategy.fee)]_vars

\* C6 witness: entered at 100, the close of 98.5 sits exactly on the
\* stop-loss threshold; evaluate_orders sold although open_long was true
\* and the generic bearish rules were silent.
C6_Witness ==
  /\ event = "EVALUATE" /\ strategy.log = "SELL" /\ strategy.btc_holdings = 0
  /\ strategy.last_buy_price = Price(100) /\ feed_price = 98500
  /\ open_long /\ ~GenericBearish(feed_ind, feed_price)

\* C7: a sell attempted with zero holdings, or a buy attempted with
\* non-positive cash or at a non-positive price, changes neither cash,
\* holdings nor entry price, and the session goes on.  (Games are taken
\* with a positive starting balance: with 0 the profit percentage of the
\* tick cannot be computed, whatever the order.)
C7_RejectedOrderNoChange ==
  [][(\/ event' = "SELL_CALL" /\ strategy.btc_holdings <= 0
      \/ event' = "BUY_CALL" /\ (strategy.balance <= 0 \/ feed_price' <= 0)
      \/ /\ driver \in {"TradingGame", "FakeMoneyGame"} /\ Stepped
         /\ game.starting_balance > 0
         /\ strategy.btc_holdings = 0 /\ feed_price' <= 0
      \/ /\ driver = "FakeMoneyGame" /\ Stepped
         /\ game.starting_balance > 0
         /\ RecoveryMode(strategy, game.starting_balance)
         /\ strategy.btc_holdings > 0 /\ game.btc_holdings <= 0)
       => /\ Account(strategy') = Account(strategy)
          /\ game'.balance = game.balance /\ game'.btc_holdings = game.btc_holdings
          /\ running']_vars

\* C7 witness: a buy_position call on a strategy whose cash is below zero
\* was turned down.
C7_Witness ==
  event = "BUY_CALL" /\ strategy.log = "CANNOT_BUY" /\ strategy.balance < 0 /\ feed_price > 0

\* C8: in a live cycle that starts with trades_today >= max_daily_trades
\* no buy order is placed and cash, holdings, entry price and the trade
\* count stay as they are.
C8_NoEntryAtTradeLimit ==
  [][(driver = "LiveTrader" /\ Stepped /\ trades_today >= config.max_daily_trades)
       => /\ event' \notin {"BUY_ORDER", "BUY_FAILED", "BUY_DISABLED"}
          /\ Account(strategy') = Account(strategy)
          /\ trades_today' = trades_today]_vars

\* C8 witness: the limit is reached, the feed shows open_long with more
\* than 10 dollars of cash at hand, and the cycle did not trade.
C8_Witness ==
  /\ driver = "LiveTrader" /\ event = "PAUSED"
  /\ trades_today = config.max_daily_trades
  /\ feed_ok /\ feed_price > 0 /\ OpenLong(feed_ind, feed_price)
  /\ strategy.balance > Dollars(10) /\ config.trading_enabled

\* C9: at the trade limit only entries are rejected: a paper-trading cycle
\* that starts with trades_today >= max_daily_trades and an open position
\* and whose candle gives close_long sells the position.
C9_ExitAtTradeLimit ==
  [][(/\ driver = "LiveTrader" /\ Stepped
      /\ config.trading_enabled /\ config.paper_trading_mode
      /\ trades_today >= config.max_daily_trades
      /\ strategy.btc_holdings > 0
      /\ feed_ok' /\ feed_price' > 0
      /\ CloseLong(feed_ind', feed_price', strategy.last_buy_price))
       => strategy'.btc_holdings = 0]_vars

\* C10: a live cycle in which (current / start - 1) * 100 is at or below
\* -max_daily_drawdown_percent is a pause: the window, the signals, the
\* account and the trade count stay as they are.  The percentage is
\* defined for a positive start balance.
C10_DrawdownPauses ==
  [][(/\ driver = "LiveTrader" /\ Stepped /\ start_balance > 0
      /\ (get_balance(config, ex_balance') - start_balance) * 100
            <= (0 - config.max_daily_drawdown_percent) * start_balance)
       => /\ event' = "PAUSED"
          /\ strategy' = strategy /\ trades_today' = trades_today
          /\ data_close' = data_close
          /\ open_long' = open_long /\ close_long' = close_long]_vars

\* C10 witness: the balance is down by exactly the limit, below the trade
\* limit, with a position open and a candle that asks to close it.
C10_Witness ==
  /\ driver = "LiveTrader" /\ event = "PAUSED"
  /\ trades_today < config.max_daily_trades
  /\ (ex_balance - start_balance) * 100 = (0 - config.max_daily_drawdown_percent) * start_balance
  /\ strategy.btc_holdings > 0 /\ feed_ok /\ feed_price > 0
  /\ CloseLong(feed_ind, feed_price, strategy.last_buy_price)

\* C11: a drawdown pause of the live trader is not terminal.  The loop is
\* still running after every paused cycle, and the cycle after a drawdown
\* pause runs the risk check again: if the balance is no longer down by the
\* limit it is not a pause, and with a candle at a positive price it stores
\* the close, refreshes both signals and goes through the trade step.
C11_PauseNotTerminal ==
  [][(driver = "LiveTrader" /\ Stepped)
       => /\ event' = "PAUSED" => running'
          /\ (/\ event = "PAUSED" /\ trades_today < config.max_daily_trades
              /\ (get_balance(config, ex_balance') - start_balance) * 100
                    > (0 - config.max_daily_drawdown_percent) * start_balance)
               => /\ event' # "PAUSED"
                  /\ (feed_ok' /\ feed_price' > 0)
                       => /\ data_close' = feed_price'
                          /\ open_long' = OpenLong(feed_ind', feed_price')
                          /\ close_long'
                               = CloseLong(feed_ind', feed_price', strategy.last_buy_price)
                          /\ event' \in {"IDLE", "BUY_ORDER", "BUY_FAILED", "BUY_DISABLED",
                                         "SELL_ORDER", "SELL_FAILED", "SELL_DISABLED"}]_vars

\* C11 witness: the cycle after a drawdown pause bought (the count was 0
\* during the pause, so the pause was not one of the trade limit).
C11_Witness ==
  /\ driver = "LiveTrader" /\ prev_event = "PAUSED" /\ event = "BUY_ORDER"
  /\ trades_today = 1 /\ strategy.btc_holdings > 0 /\ running

\* C12: trades_today never decreases; a cycle adds exactly 1 to it when the
\* exchange adapter accepted an order (buy or sell) and nothing otherwise.
C12_TradesCountOrders ==
  [][(driver = "LiveTrader" /\ Stepped)
       => trades_today' = trades_today
            + (IF event' \in {"BUY_ORDER", "SELL_ORDER"} THEN 1 ELSE 0)]_vars

\* C12 witness: a buy and a sell were accepted, and a third cycle, whose
\* sell order the exchange turned down, left the count at 2.
C12_Witness ==
  /\ driver = "LiveTrader" /\ trades_today = 2 /\ ticks = 3
  /\ event \in {"SELL_FAILED", "BUY_FAILED", "IDLE", "SKIPPED"}

\* C13: the daily trade counter is reset at the day boundary: the first
\* cycle of a new day that begins at the trade limit, with the balance not
\* down by the drawdown limit, is not a pause, and the count after it holds
\* the orders of the new day only.
C13_ResetAtDayBoundary ==
  [][(/\ driver = "LiveTrader" /\ Stepped /\ new_day'
      /\ trades_today >= config.max_daily_trades
      /\ (get_balance(config, ex_balance') - start_balance) * 100
            > (0 - config.max_daily_drawdown_percent) * start_balance)
       => (event' # "PAUSED" /\ trades_today' <= 1)]_vars

\* C14: a game tick that starts with the strategy's cash below 95 % of the
\* starting balance follows the recovery policy whatever open_long and
\* close_long are: evaluate_orders is not run (the trade size is not
\* recomputed from the cash before the order); with a position open a
\* forced sale is attempted, otherwise with cash >= 10 a forced buy of 95 %
\* of the cash, otherwise nothing.
C14_RecoveryOverrides ==
  [][(/\ driver \in {"TradingGame", "FakeMoneyGame"} /\ Stepped
      /\ strategy.balance * 100 < game.starting_balance * 95)
       => IF strategy.btc_holdings > 0
            THEN /\ event' \in {"SELL", "CANNOT_SELL", "NO_SELL"}
                 /\ strategy'.trade_amount = strategy.trade_amount
            ELSE IF strategy.balance >= Dollars(10)
            THEN /\ event' \in {"BUY", "CANNOT_BUY", "NOT_ENOUGH_FUNDS"}
                 /\ event' = "BUY"
                      => strategy'.balance <= strategy.balance - Mul95(strategy.balance)
            ELSE event' = "NONE" /\ Account(strategy') = Account(strategy)]_vars

\* C14 witness: TradingGame bought at the close and the next tick came at
\* the same close with open_long true and close_long false: no rule of
\* evaluate_orders asks for a sale, the recovery policy sold.
C14_Witness ==
  /\ driver = "TradingGame" /\ prev_event = "BUY" /\ event = "SELL"
  /\ feed_price = strategy.last_buy_price /\ open_long /\ ~close_long
  /\ strategy.btc_holdings = 0

\* C15: a game tick that starts in recovery mode with a position open
\* closes it: after the tick the strategy's holdings are 0 and its cash has
\* grown by the proceeds.
C15_ForcedCloseCloses ==
  [][(/\ driver \in {"TradingGame", "FakeMoneyGame"} /\ Stepped
      /\ strategy.balance * 100 < game.starting_balance * 95
      /\ strategy.btc_holdings > 0)
       => (strategy'.btc_holdings = 0 /\ strategy'.balance > strategy.balance)]_vars

\* C16: open_long of the latest candle is true exactly when one of the five
\* entry conditions holds on the indicator values of that candle, every
\* comparison strict.
C16_OpenLongRule ==
  [][(driver = "MicroStrategy" /\ event' \in {"SIGNALS", "EVALUATE"})
       => open_long'
            = (\/ feed_ind'.fastMA > feed_ind'.slowMA /\ feed_ind'.RSI < 52
               \/ feed_ind'.MACD * 10 > feed_ind'.MACD_signal * 11 /\ feed_ind'.RSI < 55
               \/ feed_ind'.RSI < 35 /\ feed_ind'.MACD > feed_ind'.MACD_signal
               \/ data_close' * 100 < feed_ind'.lower_band * 101 /\ feed_ind'.stoch_k < 30
               \/ feed_ind'.stoch_k < 30 /\ feed_ind'.stoch_k > feed_ind'.stoch_d)]_vars

\* C16 witness: fastMA 12 above slowMA 8 with an RSI of 40 gave open_long,
\* no other entry condition holding.
C16_Witness ==
  /\ event = "SIGNALS" /\ open_long
  /\ feed_ind.fastMA = 12000 /\ feed_ind.slowMA = 8000 /\ feed_ind.RSI = 40
  /\ feed_ind.MACD = feed_ind.MACD_signal /\ feed_ind.stoch_k >= 30

\* C17: close_long of the latest candle is true exactly when a generic
\* bearish condition holds, or the entry price is known (last_buy_price > 0)
\* and the close is at or above entry * 1.025 or at or below entry * 0.985;
\* with last_buy_price = 0 the two thresholds play no part.
C17_CloseLongRule ==
  [][(driver = "MicroStrategy" /\ event' \in {"SIGNALS", "EVALUATE"})
       => close_long'
            = (\/ /\ strategy.last_buy_price > 0
                  /\ \/ data_close' * 1000 >= strategy.last_buy_price * 1025
                     \/ data_close' * 1000 <= strategy.last_buy_price * 985
               \/ feed_ind'.fastMA < feed_ind'.slowMA /\ feed_ind'.RSI > 55
               \/ feed_ind'.RSI > 65
               \/ feed_ind'.MACD < feed_ind'.MACD_signal
                    /\ data_close' > feed_ind'.middle_band
               \/ data_close' * 100 > feed_ind'.upper_band * 98
               \/ feed_ind'.stoch_k > 70 /\ feed_ind'.stoch_k < feed_ind'.stoch_d)]_vars

\* C17 witness: entered at 100, a close of exactly 102.5 gave close_long
\* with every generic bearish condition silent.
C17_Witness ==
  /\ event = "SIGNALS" /\ close_long
  /\ strategy.last_buy_price = Price(100) /\ data_close = 102500
  /\ feed_ind = Neutral

\* C19: after populate_indicators no cell of an indicator column is
\* undefined, whatever the length of the window.
C19_NoUndefinedIndicator ==
  driver = "Window"
    => \A c \in Columns : \A i \in 1..Len(data) : indicators[c][i] # NaN

\* The four account fields of a strategy object.
Purse(s) == <<s.balance, s.btc_holdings, s.trade_amount, s.last_buy_price>>

\* C20 as stated: refreshing the indicators and signals leaves balance,
\* btc_holdings, trade_amount and last_buy_price alone, and a call that
\* changes any of the four is a committed buy_position or sell_position.
C20_OnlyTradesChangeAccount ==
  [][(driver = "MicroStrategy" /\ Stepped)
       => /\ event' = "SIGNALS" => Purse(strategy') = Purse(strategy)
          /\ Purse(strategy') # Purse(strategy) => strategy'.log \in {"BUY", "SELL"}]_vars

\* C20 amended: refreshing the indicators and signals leaves the four
\* fields alone; balance, btc_holdings and last_buy_price are changed by a
\* committed buy_position or sell_position only, trade_amount by
\* evaluate_orders only.
C20_SignalsLeaveAccount ==
  [][(driver = "MicroStrategy" /\ Stepped)
       => /\ event' = "SIGNALS" => Purse(strategy') = Purse(strategy)
          /\ Account(strategy') # Account(strategy) => strategy'.log \in {"BUY", "SELL"}
          /\ strategy'.trade_amount # strategy.trade_amount => event' = "EVALUATE"]_vars

\* C20 witness: the signals were refreshed on a strategy object that holds
\* a position with a known entry price and a trade size of an earlier
\* balance.
C20_Witness ==
  /\ event = "SIGNALS" /\ prev_event = "BUY_CALL"
  /\ strategy.btc_holdings > 0 /\ strategy.last_buy_price > 0
  /\ strategy.trade_amount # Mul95(strategy.balance)

\* The total value of the latest entry of a history.
LastTotal(history) == history[Len(history)].total_value

\* C21: the game loop stops at the first tick whose profit percentage is at
\* or above the target.  A tick that records such a value leaves the loop;
\* no tick runs once the latest recorded value is at the target; the step
\* after leaving the loop writes the report and returns True; True is
\* returned only at or above the target, and a run that returns with the
\* value below the target returns False.
C21_StopsAtTarget ==
  [][(driver \in Games) => (
      /\ (Stepped /\ event' # "ERROR"
            /\ (LastTotal(game'.balance_history) - game.starting_balance) * 100
                 >= game.profit_target * game.starting_balance)
           => ~running'
      /\ (Stepped /\ game.balance_history # <<>>)
           => (LastTotal(game.balance_history) - game.starting_balance) * 100
                 < game.profit_target * game.starting_balance
      /\ (~running /\ result = "NONE")
           => result' = "TRUE" /\ report' = report + 1 /\ ticks' = ticks
      /\ (result' # result /\ result' = "TRUE")
           => /\ report' = report + 1
              /\ (LastTotal(game.balance_history) - game.starting_balance) * 100
                   >= game.profit_target * game.starting_balance
      /\ (result' # result /\ result' = "FALSE" /\ game'.balance_history # <<>>)
           => (LastTotal(game'.balance_history) - game.starting_balance) * 100
                 < game.profit_target * game.starting_balance)]_vars

\* C21 witness: a session that reached its target before the time was up
\* has returned True with its report written.
C21_Witness ==
  /\ driver \in Games /\ result = "TRUE" /\ report = 1
  /\ clock < game.time_limit /\ Len(game.balance_history) = ticks
  /\ (LastTotal(game.balance_history) - game.starting_balance) * 100
       >= game.profit_target * game.starting_balance

\* C22: a session of fixed duration terminates.  No tick starts once the
\* clock has reached the time limit, and every session in which time
\* advances and ticks return gets to the end of run() / run_game(),
\* whatever the prices and the signals are.
C22_SessionTerminates ==
  /\ [][(driver \in Games /\ Stepped) => clock < game.time_limit]_vars
  /\ <>(~running /\ result # "NONE")

\* C22 witness: a session whose time ran out below the target has left the
\* loop and returned.
C22_Witness ==
  /\ driver \in Games /\ ~running /\ result = "FALSE" /\ event = "REPORT"
  /\ clock >= game.time_limit /\ ticks >= 2

\* C23: every way a started session ends produces the final report or
\* summary: a game whose run() / run_game() is over, and a live trader
\* whose trading loop has ended, have written one.
C23_EveryEndReports ==
  /\ (driver \in Games /\ result # "NONE") => report >= 1
  /\ (driver = "LiveTrader" /\ event \in {"INTERRUPTED", "ERROR"}) => report >= 1

\* C24: the balance history of a game is append-only with one entry per
\* executed tick.  A tick that completes appends one entry, for the cash,
\* the holdings and the price of that tick, with
\* total_value = cash + holdings * price; the entries before it stay as
\* they are; no other step touches the history; its length is the number
\* of ticks that completed (a tick that raised is the last one and is not
\* recorded).
C24_HistoryAppendOnly ==
  [][(driver \in Games) => (
      LET h == game.balance_history
          hn == game'.balance_history
      IN  /\ (Stepped /\ event' # "ERROR")
               => /\ Len(hn) = Len(h) + 1
                  /\ SubSeq(hn, 1, Len(h)) = h
                  /\ hn[Len(hn)].cash = game'.balance
                  /\ hn[Len(hn)].btc = game'.btc_holdings
                  /\ hn[Len(hn)].price = feed_price'
          /\ ~(Stepped /\ event' # "ERROR") => hn = h
          /\ Len(hn) = IF event' = "ERROR" THEN ticks' - 1 ELSE ticks'
          /\ \A i \in 1..Len(hn) :
               hn[i].total_value = hn[i].cash + Value(hn[i].btc, hn[i].price))]_vars

\* C24 witness: three ticks were recorded, the second one with the asset
\* bought, and the session has ended.
C24_Witness ==
  /\ driver \in Games /\ ticks = 3 /\ Len(game.balance_history) = 3
  /\ game.balance_history[2].btc > 0
  /\ game.balance_history[1].btc = 0
  /\ result # "NONE"

\* C25: a live cycle that passes the risk check and whose price update
\* fails (no candle, an adapter error, or a price of 0) is skipped: the
\* signals are not recomputed, no order is placed, cash, holdings, entry
\* price and trades_today stay as they are, and the loop keeps running.
C25_FailedPriceSkips ==
  [][(/\ driver = "LiveTrader" /\ Stepped /\ start_balance > 0
      /\ trades_today < config.max_daily_trades
      /\ (get_balance(config, ex_balance') - start_balance) * 100
            > (0 - config.max_daily_drawdown_percent) * start_balance
      /\ (~feed_ok' \/ feed_price' = 0))
       => /\ event' = "SKIPPED"
          /\ open_long' = open_long /\ close_long' = close_long
          /\ strategy' = strategy /\ trades_today' = trades_today
          /\ running']_vars

\* C25 witness: a cycle was skipped for want of a candle while a position
\* was open, and the loop is still running.
C25_Witness ==
  /\ driver = "LiveTrader" /\ event = "SKIPPED" /\ ~feed_ok /\ running
  /\ strategy.btc_holdings > 0 /\ trades_today < config.max_daily_trades

\* C26: after start-up the trading loop of the live trader ends on user
\* interruption only: a failed balance fetch, a failed candle fetch and a
\* failed order leave it running.
C26_LoopEndsOnInterruptOnly ==
  [][(driver = "LiveTrader" /\ running /\ ~running') => event' = "INTERRUPTED"]_vars

\* C27: when real trading is configured and the operator does not type
\* CONFIRM, the started session is a paper session, the demotion is in the
\* configuration file, and no cycle of the session sends a real order to
\* the exchange.
C27_DemotedSendsNoRealOrder ==
  (/\ driver = "LiveTrader" /\ event \notin {"NEW", "ABORTED"}
   /\ ~config.paper_trading_mode /\ config.trading_enabled
   /\ startup.answer # "CONFIRM")
    => /\ paper_trading
       /\ config_file.paper_trading_mode
       /\ ~RealOrderSent

\* C28: while the exchange handler is in paper mode or has trading
\* disabled, no cycle calls the order endpoints of the exchange; and with
\* trading disabled no cycle, whatever its signals, changes cash, holdings,
\* entry price or trades_today.
C28_PaperOrDisabledSendsNothing ==
  [][(driver = "LiveTrader" /\ Stepped) => (
      /\ (config.paper_trading_mode \/ ~config.trading_enabled) => ~order_sent'
      /\ ~config.trading_enabled
           => /\ Account(strategy') = Account(strategy)
              /\ trades_today' = trades_today)]_vars

\* C28 witness: with trading disabled a buy signal came at a usable price
\* and was only logged; in another configuration the witness of C12 shows
\* the paper order.
C28_Witness ==
  /\ driver = "LiveTrader" /\ ~config.trading_enabled /\ event = "BUY_DISABLED"
  /\ open_long /\ feed_price > 0 /\ ~order_sent
  /\ strategy.btc_holdings = 0 /\ trades_today = 0 /\ ticks >= 2

\* C30: when the configuration file cannot be loaded, the exchange is not
\* supported, the exchange cannot be initialized, or fewer than 100
\* historical candles come back, start-up of the live trader aborts: the
\* trader is in no state but waiting to start or aborted, its loop is not
\* running and no cycle has run.
C30_FailedStartupAborts ==
  (/\ driver = "LiveTrader"
   /\ \/ ~startup.config_loaded
      \/ startup.exchange \in {"unsupported", "unreachable"}
      \/ startup.candles < 100)
    => /\ event \in {"NEW", "ABORTED"}
       /\ ~running /\ ticks = 0 /\ ~order_sent

\* C30 witness: start-up was aborted with 99 candles, one short.
C30_Witness ==
  /\ driver = "LiveTrader" /\ event = "ABORTED" /\ prev_event = "NEW"
  /\ startup.candles = 99 /\ startup.config_loaded /\ startup.exchange = "ok"

C31_WindowNeverExceedsCap ==
  /\ driver = "LiveWindow" => Len(data) <= 300
  /\ driver = "GameWindow" => Len(data) <= 500

\* C31 (amended): a LiveTrader price update with the timestamp of the last
\* candle overwrites that candle and leaves the length and the other rows
\* as they were; one with another timestamp appends the candle, dropping the
\* oldest row when that makes 301; the window never exceeds 300 rows.  A
\* game tick appends one candle with the tick's price and leaves at most 500
\* rows, the most recent ones, whatever the length of the loaded window.
C31_WindowBounded ==
  [][/\ (driver = "LiveWindow" /\ event' = "UPDATED" /\ Stepped) =>
          /\ Len(data') <= 300 /\ Len(data) <= 300
          /\ data'[Len(data')] = latest'
          /\ latest'.timestamp = data[Len(data)].timestamp =>
                /\ Len(data') = Len(data)
                /\ \A i \in 1..(Len(data) - 1) : data'[i] = data[i]
          /\ latest'.timestamp # data[Len(data)].timestamp =>
                /\ Len(data') = Min(Len(data) + 1, 300)
                /\ \A i \in 1..(Len(data') - 1) :
                      data'[i] = data[Len(data) + 1 - Len(data') + i]
     /\ (driver = "LiveWindow" /\ event' = "NOPRICE" /\ Stepped) => data' = data
     /\ (driver = "GameWindow" /\ Stepped) =>
          /\ Len(data') = Min(Len(data) + 1, 500)
          /\ data'[Len(data')].close = feed_price'
          /\ \A i \in 1..(Len(data') - 1) :
                data'[i] = data[Len(data) + 1 - Len(data') + i]
    ]_vars

\* Full windows after a step: a LiveTrader window of 300 rows that has lost
\* its oldest candle and a game window of 500 rows that has lost its oldest.
C31_Witness ==
  \/ driver = "LiveWindow" /\ event = "UPDATED" /\ Len(data) = 300
       /\ data[1].timestamp > 1
  \/ driver = "GameWindow" /\ event = "APPEND" /\ Len(data) = 500
       /\ data[1].timestamp > 1

\* C32: after a committed buy of LiveTrader the entry price of the strategy
\* is the fill price of the order result.
C32_EntryIsFillPrice ==
  [][(driver = "LiveTrader" /\ Stepped /\ event' = "BUY_ORDER") =>
       strategy'.last_buy_price = order_price']_vars

\* An evaluation of the strategy object, or a LiveTrader cycle that got to
\* its trade step with trading enabled and no order refused, at a positive
\* price.
C33_EntryStep ==
  /\ Stepped /\ feed_price' > 0
  /\ \/ driver = "MicroStrategy" /\ event' = "EVALUATE"
     \/ /\ driver = "LiveTrader" /\ config.trading_enabled
        /\ event' \in {"IDLE", "BUY_ORDER", "SELL_ORDER"}

\* C33: an entry is made only with open_long and cash of at least 10, and
\* flat with open_long and cash of exactly 10 an entry is made, in
\* evaluate_orders and in the LiveTrader loop.
C33_EntryFloor ==
  [][C33_EntryStep =>
       /\ strategy'.btc_holdings > strategy.btc_holdings =>
             open_long' /\ strategy.balance >= Dollars(10)
       /\ (strategy.btc_holdings = 0 /\ strategy.balance = Dollars(10) /\ open_long') =>
             strategy'.btc_holdings > 0
    ]_vars

\* C34: in every tick the price of the tick is in the window before the
\* signals are computed, the trade of the tick is made on those signals at
\* that price, and the history record of a game tick is written after the
\* trade: it shows the cash and the holdings the trade left.
C34_RecordAfterExecution ==
  [][(Stepped /\ event' # "ERROR") => (
       LET bought == strategy'.btc_holdings > strategy.btc_holdings
           hn == game'.balance_history
       IN  /\ (driver \in Games) =>
                /\ data_close' = feed_price'
                /\ bought => strategy'.last_buy_price = feed_price'
                /\ (bought /\ ~RecoveryMode(strategy, game.starting_balance)) => open_long'
                /\ hn[Len(hn)].price = feed_price'
                /\ hn[Len(hn)].cash = strategy'.balance
                /\ hn[Len(hn)].btc = strategy'.btc_holdings
           /\ (driver = "LiveTrader" /\ event' \in {"IDLE", "BUY_ORDER", "SELL_ORDER"}) =>
                /\ data_close' = feed_price'
                /\ bought => (open_long' /\ strategy'.last_buy_price = feed_price')
                /\ strategy'.btc_holdings < strategy.btc_holdings => close_long')]_vars

\* C35: in FakeMoneyGame the account of the game and the account of its
\* strategy are equal after every tick.
C35_AccountsAgree ==
  (driver = "FakeMoneyGame" /\ ticks > 0) =>
     /\ game.balance = strategy.balance
     /\ game.btc_holdings = strategy.btc_holdings

\* C36: a sell committed in a tick with market price p adds exactly
\* holdings * p * (1 - fee) to the cash of the account that sold, in normal
\* and in recovery mode.
C36_SellAtMarketPrice ==
  [][Stepped =>
       /\ (driver \in {"TradingGame", "LiveTrader"}
             /\ strategy.btc_holdings > 0 /\ strategy'.btc_holdings = 0) =>
            strategy'.balance - strategy.balance
              = NetOfFee(Value(strategy.btc_holdings, feed_price'), strategy.fee)
       /\ (driver = "FakeMoneyGame"
             /\ game.btc_holdings > 0 /\ game'.btc_holdings = 0) =>
            game'.balance - game.balance
              = NetOfFee(Value(game.btc_holdings, feed_price'), game.fee)
    ]_vars

\* C37: one call of evaluate_orders commits at most one trade: it leaves
\* cash, holdings and entry price as they were, or it sells the whole
\* position once, or it makes one entry.  It buys only when flat and sells
\* only when holding.  It changes nothing when holding with the price
\* between stop-loss and take-profit and close_long false, and nothing when
\* flat with open_long false or cash below 10.
C37_OneTradePerCall ==
  [][(driver = "MicroStrategy" /\ Stepped /\ event' = "EVALUATE") => (
       LET s == strategy
           sn == strategy'
           price == data_close'
           entry == IF s.last_buy_price > 0 THEN s.last_buy_price ELSE price
           sold == /\ s.btc_holdings > 0 /\ sn.btc_holdings = 0
                   /\ sn.balance = s.balance + NetOfFee(Value(s.btc_holdings, price), s.fee)
                   /\ sn.last_buy_price = s.last_buy_price
           bought == /\ s.btc_holdings = 0 /\ sn.btc_holdings > 0
                     /\ sn.balance = s.balance - sn.trade_amount
                     /\ sn.last_buy_price = price
       IN  /\ Account(sn) = Account(s) \/ sold \/ bought
           /\ s.btc_holdings > 0 => sn.btc_holdings <= s.btc_holdings /\ sn.balance >= s.balance
           /\ s.btc_holdings = 0 => sn.balance <= s.balance
           /\ (/\ s.btc_holdings > 0 /\ ~close_long'
               /\ price * 1000 < entry * 1025 /\ price * 1000 > entry * 985)
                => Account(sn) = Account(s)
           /\ (s.btc_holdings = 0 /\ (~open_long' \/ s.balance < Dollars(10)))
                => Account(sn) = Account(s))]_vars

\* C37 witness: an evaluation with open_long true left a position alone
\* that it was holding with cash above 10.
C37_Witness ==
  /\ driver = "MicroStrategy" /\ event = "EVALUATE" /\ prev_event = "BUY_CALL"
  /\ open_long /\ ~close_long
  /\ strategy.btc_holdings > 0 /\ strategy.balance >= Dollars(10)
  /\ strategy.log = "NONE"

\* C38: an evaluation at a positive price of a position whose entry price
\* is unknown (btc_holdings > 0, last_buy_price = 0) closes the position if
\* and only if close_long is true, and close_long is then the signal of the
\* generic bearish rules; neither take-profit nor stop-loss closes it.
C38_UnknownEntryClosesOnSignal ==
  [][(/\ driver = "MicroStrategy" /\ Stepped /\ event' = "EVALUATE"
      /\ strategy.btc_holdings > 0 /\ strategy.last_buy_price = 0
      /\ data_close' > 0) =>
       /\ close_long' = GenericBearish(feed_ind', data_close')
       /\ close_long' => strategy'.btc_holdings = 0 /\ strategy'.log = "SELL"
       /\ ~close_long' => Account(strategy') = Account(strategy)
    ]_vars

\* C38 witness: a position with an unknown entry price was evaluated at a
\* price of 94 with close_long false and was kept.
C38_Witness ==
  /\ driver = "MicroStrategy" /\ event = "EVALUATE"
  /\ strategy.btc_holdings > 0 /\ strategy.last_buy_price = 0
  /\ data_close = Price(94) /\ ~close_long

\* C39: in a real account, the cycle after a buy, at the price of the buy
\* and with the exchange reporting the cash the buy left, is not paused
\* while the trade limit is not reached.
C39_BuyDoesNotPause ==
  [][(/\ driver = "LiveTrader" /\ ~config.paper_trading_mode /\ Stepped
      /\ event = "BUY_ORDER" /\ order_sent
      /\ feed_ok' /\ feed_price' = data_close
      /\ ex_balance' = AccountCash(strategy)
      /\ trades_today < config.max_daily_trades) =>
       event' # "PAUSED"]_vars

====
